---- MODULE Spec2Model ----
(***************************************************************************)
(* Deployment risk control loop of mnemom/deploy.                          *)
(*                                                                         *)
(*   RollbackSupervisor   src/scripts/post-deploy-monitor.js               *)
(*   CanaryGate           src/unnamed/part_002 (check-error-rate.js)       *)
(*   RiskScorer           src/scripts/confidence-score.js                  *)
(*   monitor setup        src/scripts/setup-betterstack.js                 *)
(*                                                                         *)
(* Each script has its own specification (SupSpec, GateSpec, ScorerSpec,   *)
(* SetupSpec); RerunSpec runs the gate or the scorer twice.                *)
(*                                                                         *)
(* Time is counted in whole seconds relative to startTime (line 163 of the *)
(* monitor), so endTime is monitorDuration.  An error rate is the quotient *)
(* errors / requests; it is kept as a fraction [n, d] and compared by      *)
(* cross multiplication, which agrees with the comparison of the two       *)
(* correctly rounded doubles for the counts and thresholds used here.      *)
(* Writes to the step summary and to the output file are taken to succeed. *)
(***************************************************************************)
EXTENDS Integers, Sequences, FiniteSets, TLC

\* ------------------------------------------------------------------ bounds

\* Largest MONITOR_DURATION_SECONDS tried (seconds).
MaxDuration == 3
\* Largest POLL_INTERVAL_SECONDS tried (seconds).
MaxPollInterval == 2
\* Largest overshoot of one sleep + query beyond the poll interval (seconds).
MaxJitter == 1

\* Monitors on one page of GET /monitors.
PageSize == 2

\* ------------------------------------------------------------ environment

\* ERROR_THRESHOLD values: 0, 0.05 (the default), 0.10 and 1.
Thresholds ==
    { [n |-> 0, d |-> 100], [n |-> 5, d |-> 100], [n |-> 10, d |-> 100],
      [n |-> 100, d |-> 100] }

\* What the analytics backend may answer to one query.
\*   network : fetch rejects                       badjson : res.json() rejects
\*   http    : res.ok is false                     graphql : data.errors non-empty
\*   nodata  : the body lacks data.viewer.accounts[0].workersInvocationsAdaptive
\*             (e.g. {} or an empty accounts list)
\*   empty   : workersInvocationsAdaptive = [], a window without traffic
\*   sum     : rows[0].sum = {requests, errors}
FailureKinds == {"network", "http", "badjson", "graphql"}
ZeroKinds == {"nodata", "empty"}
Sums == { <<0, 0>>, <<100, 0>>, <<50, 5>>, <<100, 5>>, <<100, 6>>, <<100, 100>> }
Responses ==
    { [kind |-> k, requests |-> 0, errors |-> 0] : k \in FailureKinds \cup ZeroKinds }
    \cup { [kind |-> "sum", requests |-> s[1], errors |-> s[2]] : s \in Sums }

\* What the workflow-dispatch endpoint may do with one POST.
DispatchReplies == {"ok", "notok", "network"}

\* SCRIPT_NAME / SERVICE_NAME / GITHUB_TOKEN: unset (or empty) or set.
ScriptNames == {"", "smoltbot-gateway"}
ServiceNames == {"", "smoltbot"}
Tokens == {"", "ghs_token"}

\* --- inputs of scripts/confidence-score.js

\* File names, cut where startsWith and endsWith look: the first piece is
\* the leading directory (or the whole name), the last piece the ending.
PSrc == <<"src/", "index", ".ts">>
PSrcTest == <<"src/", "index", ".test.ts">>
PSrcPkg == <<"src/", "package.json">>
PTest == <<"test/", "gate", ".spec.js">>
PConfig == <<"wrangler", ".toml">>
PWorkflow == <<".github/", "deploy", ".yml">>
PReadme == <<"README", ".md">>
PPkg == <<"package.json">>
PPkgLock == <<"package-lock.json">>
PPnpmLock == <<"pnpm-lock.yaml">>

StartsWith(f, prefix) == Len(f) > 0 /\ f[1] = prefix
EndsWith(f, suffix) == Len(f) > 0 /\ f[Len(f)] = suffix

\* One entry of compare.files.
ChangedFile(name, add, del) ==
    [filename |-> name, additions |-> add, deletions |-> del]

\* Added and deleted lines of one file: totals on both sides of 50 and 500.
Edits == {<<0, 0>>, <<30, 0>>, <<25, 24>>, <<50, 0>>, <<250, 250>>,
          <<500, 1>>, <<300, 300>>}

\* The file lists compare can answer with: every kind of file alone at
\* every size, two files together, and lists of more than three files
\* outside src/.
OneFile ==
    {<<ChangedFile(p, e[1], e[2])>> :
        p \in {PSrc, PSrcTest, PSrcPkg, PTest, PConfig, PPkg, PPnpmLock},
        e \in Edits}
TwoFiles ==
    {<<ChangedFile(p, e[1], 0), ChangedFile(q, e[1], e[2])>> :
        p \in {PSrc, PConfig, PPkg}, q \in {PSrcTest, PPkgLock, PReadme},
        e \in {<<10, 5>>, <<250, 1>>}}
ManyFiles ==
    {<<ChangedFile(PConfig, 1, 0), ChangedFile(PWorkflow, 2, 0),
       ChangedFile(PReadme, 3, 0), ChangedFile(PPkg, 4, 0)>>,
     <<ChangedFile(PSrc, 400, 0), ChangedFile(PWorkflow, 100, 0),
       ChangedFile(PPnpmLock, 90, 0), ChangedFile(PReadme, 1, 1),
       ChangedFile(PConfig, 0, 9)>>}
FileLists == {<<>>} \cup OneFile \cup TwoFiles \cup ManyFiles

\* What GET /repos/mnemom/{repo}/commits/{sha} answers: not ok, a commit
\* without parents, a commit with a parent.
CommitReplies == {"fail", "noparent", "parent"}

\* What GET /repos/mnemom/{repo}/compare/{parent}...{sha} answers: not ok,
\* a body without files, a body with files.
CompareReplies ==
    {[kind |-> "fail", files |-> <<>>], [kind |-> "nofiles", files |-> <<>>]}
        \cup {[kind |-> "files", files |-> fs] : fs \in FileLists}

\* Time elapsed since created_at of the last production deployment, in
\* quarters of a day.
QuarterDays == {0, 12, 28, 29, 30, 120}

\* What GET /repos/mnemom/{repo}/deployments answers: not ok, an empty list,
\* a list whose first deployment was created so long ago.
DeploymentReplies ==
    {[kind |-> "fail", elapsed |-> 0], [kind |-> "none", elapsed |-> 0]}
        \cup {[kind |-> "last", elapsed |-> q] : q \in QuarterDays}

\* Lines 58-66.
serviceKeys ==
    <<"smoltbot", "mnemom-api", "mnemom-reputation", "mnemom-risk",
      "mnemom-website", "mnemom-prover", "hunter">>

\* The keys of a flags object: the services and one package deployable.
FlagKeys == {serviceKeys[i] : i \in 1..Len(serviceKeys)} \cup {"aap"}

\* A flag holds a boolean ("true", "false"), the string "true" ("'true'")
\* or nothing ("undefined").
EmptyObject == [k \in FlagKeys |-> "undefined"]

\* The object whose first n services are true, whose next service holds the
\* string "true" if str, whose last service has no value otherwise, and
\* whose package flag is pkg.
FlagObject(n, str, pkg) ==
    [k \in FlagKeys |->
        IF k = "aap" THEN (IF pkg THEN "true" ELSE "false")
        ELSE LET i == CHOOSE j \in 1..Len(serviceKeys) : serviceKeys[j] = k
             IN IF i <= n THEN "true"
                ELSE IF str /\ i = n + 1 THEN "'true'"
                ELSE IF i = Len(serviceKeys) THEN "undefined"
                ELSE "false"]

\* process.env.DEPLOY_FLAGS: unset or empty, text that is not JSON, the
\* JSON null, a JSON array, a JSON object.
FlagInputs ==
    {[kind |-> k, val |-> EmptyObject] :
        k \in {"unset", "malformed", "null", "array"}}
        \cup {[kind |-> "object", val |-> FlagObject(n, str, pkg)] :
                n \in 0..Len(serviceKeys), str \in BOOLEAN, pkg \in BOOLEAN}

\* process.env.SOURCE_REPO.
Repos == {"", "smoltbot"}

\* process.env.SOURCE_REF, letter by letter: unset, a full hash (cut here
\* to nine letters), a short ref.
Shas == {<<>>, <<"a", "1", "b", "2", "c", "3", "d", "4", "e">>,
         <<"m", "a", "i", "n">>}

\* ------------------------------------------------------------- arithmetic

RateGT(a, b) == a.n * b.d > b.n * a.d
RateLE(a, b) == a.n * b.d <= b.n * a.d

ZeroRate == [n |-> 0, d |-> 1]

\* ------------------------------------------- post-deploy-monitor.js: query

Thrown(msg) ==
    [ok |-> FALSE, message |-> msg, requests |-> 0, errors |-> 0, errorRate |-> ZeroRate]
Returned(requests, errors, errorRate) ==
    [ok |-> TRUE, message |-> "", requests |-> requests, errors |-> errors,
     errorRate |-> errorRate]

\* queryErrorRate: a thrown error, or {requests, errors, errorRate}.
QueryErrorRate(resp) ==
    IF resp.kind = "network" THEN Thrown("fetch failed")
    ELSE IF resp.kind = "http" THEN Thrown("Cloudflare GraphQL API returned 500")
    ELSE IF resp.kind = "badjson" THEN Thrown("Unexpected token in JSON")
    ELSE IF resp.kind = "graphql" THEN Thrown("GraphQL errors: quota exceeded")
    ELSE IF resp.kind \in {"nodata", "empty"} THEN Returned(0, 0, ZeroRate)
    ELSE Returned(resp.requests, resp.errors,
                  IF resp.requests > 0
                  THEN [n |-> resp.errors, d |-> resp.requests]
                  ELSE ZeroRate)

\* --------------------------------------------------------------- variables

VARIABLES
    scriptName,       \* process.env.SCRIPT_NAME
    serviceName,      \* process.env.SERVICE_NAME
    githubToken,      \* process.env.GITHUB_TOKEN
    errorThreshold,   \* parseFloat(ERROR_THRESHOLD), a fraction
    monitorDuration,  \* parseInt(MONITOR_DURATION_SECONDS)
    pollInterval,     \* parseInt(POLL_INTERVAL_SECONDS)
    pc,               \* where main() of the monitor stands
    now,              \* Date.now() - startTime, in seconds
    iteration,        \* let iteration
    checks,           \* const checks = []
    summary,          \* reports written by writeSummary, in order
    dispatchCalls,    \* number of calls of dispatchRollback
    dispatchPosts,    \* number of POSTs sent to the rollback workflow
    dispatchResult,   \* how dispatchRollback ended: "none", "true", "false", "threw"
    caught,           \* message of the error main() rejected with, or ""
    exitCode,         \* exit code of the process once pc = "exited"
    outcomes,         \* history: what the backend answered to each query, and when
    gateScriptName,   \* gate: process.env.SCRIPT_NAME
    gateThreshold,    \* gate: parseFloat(ERROR_THRESHOLD), a fraction
    gatePc,           \* gate: where main() stands
    gateResult,       \* gate: let result
    gatePassed,       \* gate: const passed
    gateSummary,      \* gate: reports written by writeSummary, in order
    gateOutput,       \* gate: values written for canary-passed, in order
    gateQueries,      \* gate: history of backend answers
    gateExitCode,     \* gate: exit code of the process once gatePc = "exited"
    repo,             \* scorer: process.env.SOURCE_REPO
    sha,              \* scorer: process.env.SOURCE_REF
    flagsEnv,         \* scorer: process.env.DEPLOY_FLAGS
    deployFlags,      \* scorer: let deployFlags
    score,            \* scorer: let score
    factors,          \* scorer: const factors
    diffStats,        \* scorer: { totalChanges, files } of getDiffStats
    scorerPc,         \* scorer: where main() stands
    scorerThrown,     \* scorer: message of the error caught at line 180, or ""
    scorerSummary,    \* scorer: reports written by writeSummary, in order
    scorerReplies,    \* scorer: history of the answers of the GitHub API
    scorerExitCode,   \* scorer: exit code of the process once scorerPc = "exited"
    run,              \* rerun: 1 in the first invocation of a script, 2 in the second
    first,            \* rerun: what the first invocation was answered and produced
    bsToken,          \* setup: process.env.BETTERSTACK_API_TOKEN
    backend,          \* setup: the urls of the monitors BetterStack holds ("" for none)
    page,             \* setup: let page of getExistingMonitors
    monitors,         \* setup: const monitors of getExistingMonitors
    existingUrls,     \* setup: const existingUrls of main
    cursor,           \* setup: position of the for loop in MONITORS
    setupPc,          \* setup: where main() stands
    listed,           \* setup: what BetterStack held when this invocation began
    creates,          \* setup: the POST /monitors requests made, in order
    setupCaught,      \* setup: message of the error that rejected main(), or ""
    setupExitCode     \* setup: exit code of the process once setupPc = "exited"

supVars == <<scriptName, serviceName, githubToken, errorThreshold, monitorDuration,
             pollInterval, pc, now, iteration, checks, summary, dispatchCalls,
             dispatchPosts, dispatchResult, caught, exitCode, outcomes>>

gateVars == <<gateScriptName, gateThreshold, gatePc, gateResult, gatePassed,
              gateSummary, gateOutput, gateQueries, gateExitCode>>

scorerVars == <<repo, sha, flagsEnv, deployFlags, score, factors, diffStats,
                scorerPc, scorerThrown, scorerSummary, scorerReplies, scorerExitCode>>

rerunVars == <<run, first>>

setupVars == <<bsToken, backend, page, monitors, existingUrls, cursor, setupPc,
               listed, creates, setupCaught, setupExitCode>>

vars == <<supVars, gateVars, scorerVars, rerunVars, setupVars>>

\* What an action of one script leaves alone: the other scripts.
notSupVars == <<gateVars, scorerVars, rerunVars, setupVars>>
notGateVars == <<supVars, scorerVars, rerunVars, setupVars>>
notScorerVars == <<supVars, gateVars, rerunVars, setupVars>>
notSetupVars == <<supVars, gateVars, scorerVars>>

\* ------------------------------------------ post-deploy-monitor.js: main()

\* Mutant of ConfigMissing: only SCRIPT_NAME is tested.
ConfigMissingScriptOnly(script, service) == script = ""

\* Line 157: the configuration check.
ConfigMissing(script, service) == script = "" \/ service = ""

\* Variant of LoopCond that still enters the loop at the end time.
LoopCondInclusive(t, duration) == t <= duration

\* Line 171: the loop condition, Date.now() < endTime.
LoopCond(t, duration) == t < duration

\* Variant of Breach that triggers on any error.
BreachOnAnyError(result, threshold) == result.errors > 0

\* Mutant of Breach: a rate equal to the threshold triggers too.
BreachInclusive(result, threshold) ==
    result.requests > 0 /\ ~RateGT(threshold, result.errorRate)

\* Line 205: the rollback condition.
Breach(result, threshold) ==
    result.requests > 0 /\ RateGT(result.errorRate, threshold)

\* Mutant of ErrorCheck: the reason is dropped from the record.
ErrorCheckNoReason(i, msg) ==
    [iteration |-> i, status |-> "error", message |-> "",
     requests |-> 0, errors |-> 0, errorRate |-> [n |-> 0, d |-> 1]]

\* Variant of OkCheck that numbers the record before the count of line 172.
OkCheckStale(i, result) ==
    [iteration |-> i - 1, status |-> "ok", message |-> "",
     requests |-> result.requests, errors |-> result.errors,
     errorRate |-> result.errorRate]

\* Lines 183-187 and 196-202: the record pushed to checks.
ErrorCheck(i, msg) ==
    [iteration |-> i, status |-> "error", message |-> msg,
     requests |-> 0, errors |-> 0, errorRate |-> ZeroRate]
OkCheck(i, result) ==
    [iteration |-> i, status |-> "ok", message |-> "",
     requests |-> result.requests, errors |-> result.errors,
     errorRate |-> result.errorRate]

\* The gate is not running.
GateIdle ==
    /\ gateScriptName = ""
    /\ gateThreshold = [n |-> 5, d |-> 100]
    /\ gatePc = "idle"
    /\ gateResult = Thrown("")
    /\ gatePassed = FALSE
    /\ gateSummary = <<>>
    /\ gateOutput = <<>>
    /\ gateQueries = <<>>
    /\ gateExitCode = 0

\* The setup of the uptime monitors is not running.
SetupIdle ==
    /\ bsToken = ""
    /\ backend = <<>>
    /\ page = 1
    /\ monitors = <<>>
    /\ existingUrls = {}
    /\ cursor = 1
    /\ setupPc = "idle"
    /\ listed = <<>>
    /\ creates = <<>>
    /\ setupCaught = ""
    /\ setupExitCode = 0

\* The first invocation of a script: nothing was answered or produced before.
FirstRun ==
    /\ run = 1
    /\ first = [replies |-> <<>>, summary |-> <<>>, output |-> <<>>, exitCode |-> 0]

\* One answer of the GitHub API, as kept in scorerReplies.
Reply(call, kind, files, elapsed) ==
    [call |-> call, kind |-> kind, files |-> files, elapsed |-> elapsed]

\* The answers a call may get: any of them in the first invocation, and in
\* the second the answer the same call got in the first (the metrics source
\* and the history are stable between the two).
Answers(call, all) ==
    IF run = 1 THEN all
    ELSE LET same == {first.replies[i].answer :
                         i \in {j \in 1..Len(first.replies) :
                                   first.replies[j].call = call}}
         IN IF same = {} THEN all ELSE same

\* The scorer is not running.
ScorerIdle ==
    /\ repo = ""
    /\ sha = <<>>
    /\ flagsEnv = [kind |-> "unset", val |-> EmptyObject]
    /\ deployFlags = [null |-> FALSE, val |-> EmptyObject]
    /\ score = 0
    /\ factors = <<>>
    /\ diffStats = [totalChanges |-> 0, files |-> <<>>]
    /\ scorerPc = "idle"
    /\ scorerThrown = ""
    /\ scorerSummary = <<>>
    /\ scorerReplies = <<>>
    /\ scorerExitCode = 0

SupInit ==
    /\ SetupIdle
    /\ GateIdle
    /\ ScorerIdle
    /\ FirstRun
    /\ scriptName \in ScriptNames
    /\ serviceName \in ServiceNames
    /\ githubToken \in Tokens
    /\ errorThreshold \in Thresholds
    /\ monitorDuration \in 0..MaxDuration
    /\ pollInterval \in 1..MaxPollInterval
    /\ pc = "start"
    /\ now = 0
    /\ iteration = 0
    /\ checks = <<>>
    /\ summary = <<>>
    /\ dispatchCalls = 0
    /\ dispatchPosts = 0
    /\ dispatchResult = "none"
    /\ caught = ""
    /\ exitCode = 0
    /\ outcomes = <<>>

\* Lines 144-169: read the configuration; exit 1 when an identity is missing.
SupStart ==
    /\ pc = "start"
    /\ IF ConfigMissing(scriptName, serviceName)
       THEN /\ pc' = "exited"
            /\ exitCode' = 1
       ELSE /\ pc' = "loop"
            /\ UNCHANGED exitCode
    /\ UNCHANGED <<scriptName, serviceName, githubToken, errorThreshold,
                   monitorDuration, pollInterval, now, iteration, checks, summary,
                   dispatchCalls, dispatchPosts, dispatchResult, caught, outcomes>>
    /\ UNCHANGED notSupVars

\* Lines 171-172: test the budget, count the iteration.
SupLoop ==
    /\ pc = "loop"
    /\ IF LoopCond(now, monitorDuration)
       THEN /\ iteration' = iteration + 1
            /\ pc' = "sleep"
       ELSE /\ pc' = "pass"
            /\ UNCHANGED iteration
    /\ UNCHANGED <<scriptName, serviceName, githubToken, errorThreshold,
                   monitorDuration, pollInterval, now, checks, summary,
                   dispatchCalls, dispatchPosts, dispatchResult, caught, exitCode, outcomes>>
    /\ UNCHANGED notSupVars

\* Line 173: sleep one poll interval; the timer and the query that follows
\* may take longer than asked.
SupSleep ==
    /\ pc = "sleep"
    /\ \E j \in 0..MaxJitter : now' = now + pollInterval + j
    /\ pc' = "query"
    /\ UNCHANGED <<scriptName, serviceName, githubToken, errorThreshold,
                   monitorDuration, pollInterval, iteration, checks, summary,
                   dispatchCalls, dispatchPosts, dispatchResult, caught, exitCode, outcomes>>
    /\ UNCHANGED notSupVars

\* Mutant of PollFailed: a failed query ends the loop (break for continue).
PollFailedBreaks(msg) ==
    /\ checks' = Append(checks, [iteration |-> iteration, status |-> "error",
                                  message |-> msg, requests |-> 0, errors |-> 0,
                                  errorRate |-> [n |-> 0, d |-> 1]])
    /\ pc' = "pass"

\* Lines 178-188: the query threw; record it and continue.
PollFailed(msg) ==
    /\ checks' = Append(checks, ErrorCheck(iteration, msg))
    /\ pc' = "loop"

\* Lines 191-205: the query returned; record it and test the rollback condition.
PollSampled(result) ==
    /\ checks' = Append(checks, OkCheck(iteration, result))
    /\ pc' = IF Breach(result, errorThreshold) THEN "rollback" ELSE "loop"

\* Lines 175-205: one query and its evaluation.
SupPoll ==
    /\ pc = "query"
    /\ \E resp \in Responses :
         /\ outcomes' = Append(outcomes, [resp |-> resp, at |-> now])
         /\ LET result == QueryErrorRate(resp)
            IN IF result.ok THEN PollSampled(result) ELSE PollFailed(result.message)
    /\ UNCHANGED <<scriptName, serviceName, githubToken, errorThreshold,
                   monitorDuration, pollInterval, now, iteration, summary,
                   dispatchCalls, dispatchPosts, dispatchResult, caught, exitCode>>
    /\ UNCHANGED notSupVars

\* Mutant of RollbackReport: the triggering check is reported zero-based.
RollbackReportZeroBased(i, rows) ==
    [kind |-> "ROLLBACK TRIGGERED", atCheck |-> i - 1, rows |-> rows, error |-> ""]

\* Mutant of FailOpenReport: the error is not named.
FailOpenReportAnonymous(msg) ==
    [kind |-> "PASS (fail-open)", atCheck |-> 0, rows |-> <<>>, error |-> ""]

\* Lines 210-230 and 238-254: the reports.
RollbackReport(i, rows) ==
    [kind |-> "ROLLBACK TRIGGERED", atCheck |-> i, rows |-> rows, error |-> ""]
PassReport(rows) ==
    [kind |-> "PASS", atCheck |-> 0, rows |-> rows, error |-> ""]
FailOpenReport(msg) ==
    [kind |-> "PASS (fail-open)", atCheck |-> 0, rows |-> <<>>, error |-> msg]

\* Lines 206-230: write the rollback report.
SupRollbackReport ==
    /\ pc = "rollback"
    /\ summary' = Append(summary, RollbackReport(iteration, checks))
    /\ pc' = "dispatch"
    /\ UNCHANGED <<scriptName, serviceName, githubToken, errorThreshold,
                   monitorDuration, pollInterval, now, iteration, checks,
                   dispatchCalls, dispatchPosts, dispatchResult, caught, exitCode, outcomes>>
    /\ UNCHANGED notSupVars

\* Lines 232-233 with dispatchRollback (105-141): without a token no request is
\* sent and false is returned; a reply that is not OK returns false; a rejected
\* fetch rejects dispatchRollback and with it main().  When dispatchRollback
\* returns, process.exit(1) follows.
SupDispatch ==
    /\ pc = "dispatch"
    /\ dispatchCalls' = dispatchCalls + 1
    /\ IF githubToken = ""
       THEN /\ UNCHANGED <<dispatchPosts, caught>>
            /\ dispatchResult' = "false"
            /\ pc' = "exited"
            /\ exitCode' = 1
       ELSE /\ dispatchPosts' = dispatchPosts + 1
            /\ \E reply \in DispatchReplies :
                 IF reply = "network"
                 THEN /\ dispatchResult' = "threw"
                      /\ caught' = "fetch failed"
                      /\ pc' = "catch"
                      /\ UNCHANGED exitCode
                 ELSE /\ dispatchResult' = (IF reply = "ok" THEN "true" ELSE "false")
                      /\ UNCHANGED caught
                      /\ pc' = "exited"
                      /\ exitCode' = 1
    /\ UNCHANGED <<scriptName, serviceName, githubToken, errorThreshold,
                   monitorDuration, pollInterval, now, iteration, checks, summary,
                   outcomes>>
    /\ UNCHANGED notSupVars

\* Lines 237-255: the budget is spent; write the pass report and return.
SupPass ==
    /\ pc = "pass"
    /\ summary' = Append(summary, PassReport(checks))
    /\ pc' = "exited"
    /\ exitCode' = 0
    /\ UNCHANGED <<scriptName, serviceName, githubToken, errorThreshold,
                   monitorDuration, pollInterval, now, iteration, checks,
                   dispatchCalls, dispatchPosts, dispatchResult, caught, outcomes>>
    /\ UNCHANGED notSupVars

\* Mutant of SupCatch: the handler reports and then fails the job.
SupCatchFailsJob ==
    /\ pc = "catch"
    /\ summary' = Append(summary, [kind |-> "PASS (fail-open)", atCheck |-> 0,
                                    rows |-> <<>>, error |-> caught])
    /\ pc' = "exited"
    /\ exitCode' = 1
    /\ UNCHANGED <<scriptName, serviceName, githubToken, errorThreshold,
                   monitorDuration, pollInterval, now, iteration, checks,
                   dispatchCalls, dispatchPosts, dispatchResult, caught, outcomes>>
    /\ UNCHANGED notSupVars

\* Lines 257-263: main() rejected; report PASS (fail-open) and end normally.
SupCatch ==
    /\ pc = "catch"
    /\ summary' = Append(summary, FailOpenReport(caught))
    /\ pc' = "exited"
    /\ exitCode' = 0
    /\ UNCHANGED <<scriptName, serviceName, githubToken, errorThreshold,
                   monitorDuration, pollInterval, now, iteration, checks,
                   dispatchCalls, dispatchPosts, dispatchResult, caught, outcomes>>
    /\ UNCHANGED notSupVars

SupNext ==
    \/ SupStart
    \/ SupLoop
    \/ SupSleep
    \/ SupPoll
    \/ SupRollbackReport
    \/ SupDispatch
    \/ SupPass
    \/ SupCatch

SupSpec == SupInit /\ [][SupNext]_vars

\* ------------------------------------------------ check-error-rate.js

\* queryErrorRate of the gate (its own copy, lines 36-100).
GateQueryErrorRate(resp) ==
    IF resp.kind = "network" THEN Thrown("fetch failed")
    ELSE IF resp.kind = "http" THEN Thrown("Cloudflare GraphQL API returned 500")
    ELSE IF resp.kind = "badjson" THEN Thrown("Unexpected token in JSON")
    ELSE IF resp.kind = "graphql" THEN Thrown("GraphQL errors: quota exceeded")
    ELSE IF resp.kind \in {"nodata", "empty"} THEN Returned(0, 0, ZeroRate)
    ELSE Returned(resp.requests, resp.errors,
                  IF resp.requests > 0
                  THEN [n |-> resp.errors, d |-> resp.requests]
                  ELSE ZeroRate)

\* Mutant of Passed: the boundary is exclusive.
PassedStrict(result, threshold) ==
    result.requests = 0 \/ RateGT(threshold, result.errorRate)

\* Lines 130-131: the verdict.
Passed(result, threshold) ==
    result.requests = 0 \/ RateLE(result.errorRate, threshold)

\* Lines 121-125 and 160-164: the fail-open reports.
GateFailOpenReport(cause, msg) ==
    [kind |-> "PASS (fail-open)", cause |-> cause, error |-> msg,
     requests |-> 0, errors |-> 0, errorRate |-> ZeroRate,
     threshold |-> ZeroRate, noTraffic |-> FALSE]

\* Lines 133-152: the report of a sampled window.
GateReport(result, threshold, passed) ==
    [kind |-> IF passed THEN "PASS" ELSE "FAIL", cause |-> "", error |-> "",
     requests |-> result.requests, errors |-> result.errors,
     errorRate |-> result.errorRate, threshold |-> threshold,
     noTraffic |-> (result.requests = 0)]

\* Mutant of GateQueryCatch: a failed query blocks the deploy.
GateQueryCatchBlocks(msg) ==
    [summary |-> Append(gateSummary,
                        [kind |-> "FAIL", cause |-> "analytics query failed",
                         error |-> msg, requests |-> 0, errors |-> 0,
                         errorRate |-> [n |-> 0, d |-> 1],
                         threshold |-> [n |-> 0, d |-> 1], noTraffic |-> FALSE]),
     output |-> Append(gateOutput, "false")]

\* Lines 118-127: what the catch of the query writes and emits.
GateQueryCatch(msg) ==
    [summary |-> Append(gateSummary, GateFailOpenReport("analytics query failed", msg)),
     output |-> Append(gateOutput, "true")]

\* Lines 157-166: what the handler of a rejected main() writes and emits.
GateMainCatch(msg) ==
    [summary |-> Append(gateSummary, GateFailOpenReport("script error", msg)),
     output |-> Append(gateOutput, "true")]

\* The supervisor is not running.
SupIdle ==
    /\ scriptName = ""
    /\ serviceName = ""
    /\ githubToken = ""
    /\ errorThreshold = [n |-> 5, d |-> 100]
    /\ monitorDuration = 0
    /\ pollInterval = 1
    /\ pc = "idle"
    /\ now = 0
    /\ iteration = 0
    /\ checks = <<>>
    /\ summary = <<>>
    /\ dispatchCalls = 0
    /\ dispatchPosts = 0
    /\ dispatchResult = "none"
    /\ caught = ""
    /\ exitCode = 0
    /\ outcomes = <<>>

GateInit ==
    /\ SetupIdle
    /\ SupIdle
    /\ ScorerIdle
    /\ FirstRun
    /\ gateScriptName \in ScriptNames
    /\ gateThreshold \in Thresholds
    /\ gatePc = "start"
    /\ gateResult = Thrown("")
    /\ gatePassed = FALSE
    /\ gateSummary = <<>>
    /\ gateOutput = <<>>
    /\ gateQueries = <<>>
    /\ gateExitCode = 0

\* Variant of GateStart without the check of the script name.
GateStartUnchecked ==
    /\ gatePc = "start"
    /\ gatePc' = "query"
    /\ UNCHANGED <<gateScriptName, gateThreshold, gateResult, gatePassed,
                   gateSummary, gateOutput, gateQueries, gateExitCode>>
    /\ UNCHANGED notGateVars

\* Lines 103-113: read the configuration; exit 1 without a script name.
GateStart ==
    /\ gatePc = "start"
    /\ IF gateScriptName = ""
       THEN /\ gatePc' = "exited"
            /\ gateExitCode' = 1
       ELSE /\ gatePc' = "query"
            /\ UNCHANGED gateExitCode
    /\ UNCHANGED <<gateScriptName, gateThreshold, gateResult, gatePassed,
                   gateSummary, gateOutput, gateQueries>>
    /\ UNCHANGED notGateVars

\* Mutant of GateQuery: the catch of the query does not return.
GateQueryFallsThrough ==
    /\ gatePc = "query"
    /\ \E resp \in Responses :
         /\ gateQueries' = Append(gateQueries, resp)
         /\ LET result == GateQueryErrorRate(resp)
            IN /\ gateResult' = result
               /\ gatePc' = "evaluate"
               /\ IF result.ok
                  THEN UNCHANGED <<gateSummary, gateOutput, gateExitCode>>
                  ELSE /\ gateSummary' = GateQueryCatch(result.message).summary
                       /\ gateOutput' = GateQueryCatch(result.message).output
                       /\ UNCHANGED gateExitCode
    /\ UNCHANGED <<gateScriptName, gateThreshold, gatePassed>>
    /\ UNCHANGED notGateVars

\* Lines 115-128: the one query; when it throws, report, emit true and return.
GateQuery ==
    /\ gatePc = "query"
    /\ \E resp \in Answers("query", Responses) :
         /\ gateQueries' = Append(gateQueries, resp)
         /\ LET result == GateQueryErrorRate(resp)
            IN /\ gateResult' = result
               /\ IF result.ok
                  THEN /\ gatePc' = "evaluate"
                       /\ UNCHANGED <<gateSummary, gateOutput, gateExitCode>>
                  ELSE /\ gateSummary' = GateQueryCatch(result.message).summary
                       /\ gateOutput' = GateQueryCatch(result.message).output
                       /\ gatePc' = "exited"
                       /\ gateExitCode' = 0
    /\ UNCHANGED <<gateScriptName, gateThreshold, gatePassed>>
    /\ UNCHANGED notGateVars

\* Lines 130-152: compute the verdict and write the report.
GateEvaluate ==
    /\ gatePc = "evaluate"
    /\ gatePassed' = Passed(gateResult, gateThreshold)
    /\ gateSummary' = Append(gateSummary,
                             GateReport(gateResult, gateThreshold, gatePassed'))
    /\ gatePc' = "output"
    /\ UNCHANGED <<gateScriptName, gateThreshold, gateResult, gateOutput,
                   gateQueries, gateExitCode>>
    /\ UNCHANGED notGateVars

\* Line 154: emit canary-passed and return.
GateEmit ==
    /\ gatePc = "output"
    /\ gateOutput' = Append(gateOutput, IF gatePassed THEN "true" ELSE "false")
    /\ gatePc' = "exited"
    /\ gateExitCode' = 0
    /\ UNCHANGED <<gateScriptName, gateThreshold, gateResult, gatePassed,
                   gateSummary, gateQueries>>
    /\ UNCHANGED notGateVars

GateNext ==
    \/ GateStart
    \/ GateQuery
    \/ GateEvaluate
    \/ GateEmit

GateSpec == GateInit /\ [][GateNext]_vars

\* ------------------------------------------- confidence-score.js

\* Lines 82-86: JSON.parse(process.env.DEPLOY_FLAGS || "{}"), and {} when
\* it throws.  null parses to null; an array has none of the keys.
ParseFlags(env) ==
    IF env.kind = "object" THEN [null |-> FALSE, val |-> env.val]
    ELSE IF env.kind = "null" THEN [null |-> TRUE, val |-> EmptyObject]
    ELSE [null |-> FALSE, val |-> EmptyObject]

\* Variant of countServicesAffected that counts every flag that is true.
countEveryFlag(flags) ==
    Cardinality({k \in FlagKeys : flags.val[k] = "true"})

\* Lines 56-68.
countServicesAffected(flags) ==
    Cardinality({i \in 1..Len(serviceKeys) : flags.val[serviceKeys[i]] = "true"})

\* Lines 39-42: the reduce over compare.files.
RECURSIVE SumChanges(_)
SumChanges(fs) ==
    IF fs = <<>> THEN 0
    ELSE fs[1].additions + fs[1].deletions + SumChanges(Tail(fs))

\* Lines 30-45 once both calls have answered.
DiffStats(compare) ==
    [totalChanges |-> SumChanges(compare.files),
     files |-> [i \in 1..Len(compare.files) |-> compare.files[i].filename]]

\* One entry of factors.
Factor(signal, files, more, label, impact) ==
    [signal |-> signal, files |-> files, more |-> more, label |-> label,
     impact |-> impact]

\* Variant of DiffSizeStep whose large-change bound is 5 lines.
DiffSizeStepOverlapping(st, totalChanges) ==
    LET small == IF totalChanges < 50
                 THEN [score |-> st.score + 10,
                       factors |-> Append(st.factors,
                           [signal |-> "Small change (<50 lines)", files |-> <<>>,
                            more |-> FALSE, label |-> "", impact |-> "+10"])]
                 ELSE st
    IN IF totalChanges > 5
       THEN [score |-> small.score - 20,
             factors |-> Append(small.factors,
                 [signal |-> "Large change (>500 lines)", files |-> <<>>,
                  more |-> FALSE, label |-> "", impact |-> "-20"])]
       ELSE small

\* Lines 107-114.
DiffSizeStep(st, totalChanges) ==
    LET small == IF totalChanges < 50
                 THEN [score |-> st.score + 10,
                       factors |-> Append(st.factors,
                           Factor("Small change (<50 lines)", <<>>, FALSE, "", "+10"))]
                 ELSE st
    IN IF totalChanges > 500
       THEN [score |-> small.score - 20,
             factors |-> Append(small.factors,
                 Factor("Large change (>500 lines)", <<>>, FALSE, "", "-20"))]
       ELSE small

\* Lines 117-124.
IsConfigFile(f) ==
    /\ ~StartsWith(f, "src/")
    /\ ~EndsWith(f, ".test.ts")
    /\ ~EndsWith(f, ".test.js")
    /\ ~EndsWith(f, ".spec.ts")
    /\ ~EndsWith(f, ".spec.js")

\* Lines 117-131.
ConfigStep(st, files) ==
    LET configFiles == SelectSeq(files, IsConfigFile)
    IN IF Len(configFiles) > 0
       THEN [score |-> st.score - 10,
             factors |-> Append(st.factors,
                 Factor("Files outside src/",
                        SubSeq(configFiles, 1, IF Len(configFiles) < 3
                                               THEN Len(configFiles) ELSE 3),
                        Len(configFiles) > 3, "", "-10"))]
       ELSE st

\* Lines 134-139.
IsDepFile(f) ==
    \/ EndsWith(f, "package.json")
    \/ EndsWith(f, "package-lock.json")
    \/ EndsWith(f, "pnpm-lock.yaml")

\* Lines 134-146.
DepStep(st, files) ==
    LET depFiles == SelectSeq(files, IsDepFile)
    IN IF Len(depFiles) > 0
       THEN [score |-> st.score - 15,
             factors |-> Append(st.factors,
                 Factor("Dependency changes", depFiles, FALSE, "", "-15"))]
       ELSE st

\* Lines 150-162.
ServiceStep(st, serviceCount) ==
    IF serviceCount > 3
    THEN [score |-> st.score - 15,
          factors |-> Append(st.factors,
              Factor("services affected (>3)", <<>>, FALSE,
                     ToString(serviceCount), "-15"))]
    ELSE IF serviceCount >= 2
    THEN [score |-> st.score - 5,
          factors |-> Append(st.factors,
              Factor("services affected (2-3)", <<>>, FALSE,
                     ToString(serviceCount), "-5"))]
    ELSE st

\* Lines 51-53: Infinity without a deployment, the elapsed time otherwise.
DaysSince(reply) ==
    IF reply.kind = "none" THEN [infinite |-> TRUE, quarters |-> 0]
    ELSE [infinite |-> FALSE, quarters |-> reply.elapsed]

\* Line 167: daysSince > 7.
MoreThanSevenDays(daysSince) == daysSince.infinite \/ daysSince.quarters > 28

\* Line 170: Math.round(daysSince) as the template prints it.
RoundDays(daysSince) ==
    IF daysSince.infinite THEN "Infinity"
    ELSE ToString((daysSince.quarters + 2) \div 4)

\* Lines 165-179.
AgeStep(st, reply) ==
    IF reply.kind = "fail"
    THEN [score |-> st.score,
          factors |-> Append(st.factors,
              Factor("Last prod deploy time unavailable", <<>>, FALSE, "", "n/a"))]
    ELSE IF MoreThanSevenDays(DaysSince(reply))
    THEN [score |-> st.score - 5,
          factors |-> Append(st.factors,
              Factor(">7 days since last prod deploy", <<>>, FALSE,
                     RoundDays(DaysSince(reply)), "-5"))]
    ELSE st

\* Variant of Clamp without the upper bound.
ClampLowerOnly(s) == IF s < 0 THEN 0 ELSE s

\* Line 191.
Clamp(s) == IF s > 100 THEN 100 ELSE IF s < 0 THEN 0 ELSE s

\* Lines 93-99, 182-186 and 216-220: the neutral report.
NeutralReport(note, msg) ==
    [header |-> "## Deployment Confidence Score", score |-> 50,
     source |-> <<>>, note |-> note, message |-> msg, table |-> <<>>]

\* Lines 194-209: the report of a scored change.
ScoreReport(s, r, ref, fs) ==
    [header |-> "## Deployment Confidence Score", score |-> s,
     source |-> <<r, SubSeq(ref, 1, IF Len(ref) < 7 THEN Len(ref) ELSE 7)>>,
     note |-> IF Len(fs) > 0 THEN "" ELSE "_No risk signals detected._",
     message |-> "", table |-> fs]

\* Lines 212-226: what the handler of a rejected main() writes.
ScorerMainCatch(msg) ==
    Append(scorerSummary, NeutralReport("_Error computing score_", msg))

\* The supervisor and the gate are not running.
ScorerInit ==
    /\ SetupIdle
    /\ SupIdle
    /\ GateIdle
    /\ FirstRun
    /\ repo \in Repos
    /\ sha \in Shas
    /\ flagsEnv \in FlagInputs
    /\ deployFlags = [null |-> FALSE, val |-> EmptyObject]
    /\ score = 0
    /\ factors = <<>>
    /\ diffStats = [totalChanges |-> 0, files |-> <<>>]
    /\ scorerPc = "start"
    /\ scorerThrown = ""
    /\ scorerSummary = <<>>
    /\ scorerReplies = <<>>
    /\ scorerExitCode = 0

\* Variant of ScStart without the return of line 100.
ScStartFallsThrough ==
    /\ scorerPc = "start"
    /\ deployFlags' = ParseFlags(flagsEnv)
    /\ score' = 100
    /\ factors' = <<>>
    /\ IF repo = "" \/ sha = <<>>
       THEN scorerSummary' = Append(scorerSummary,
                NeutralReport("_No source commit available for analysis_", ""))
       ELSE UNCHANGED scorerSummary
    /\ scorerPc' = "commit"
    /\ UNCHANGED <<repo, sha, flagsEnv, diffStats, scorerThrown, scorerReplies,
                   scorerExitCode>>
    /\ UNCHANGED notScorerVars

\* Variant of ScStart that leaves score and factors as they are.
ScStartKeepsScore ==
    /\ scorerPc = "start"
    /\ deployFlags' = ParseFlags(flagsEnv)
    /\ IF repo = "" \/ sha = <<>>
       THEN /\ scorerSummary' = Append(scorerSummary,
                NeutralReport("_No source commit available for analysis_", ""))
            /\ scorerPc' = "exited"
            /\ scorerExitCode' = 0
       ELSE /\ scorerPc' = "commit"
            /\ UNCHANGED <<scorerSummary, scorerExitCode>>
    /\ UNCHANGED <<repo, sha, flagsEnv, score, factors, diffStats, scorerThrown,
                   scorerReplies>>
    /\ UNCHANGED notScorerVars

\* Lines 78-101: read the environment, set the baseline, and report the
\* neutral score when there is no commit to analyse.
ScStart ==
    /\ scorerPc = "start"
    /\ deployFlags' = ParseFlags(flagsEnv)
    /\ score' = 100
    /\ factors' = <<>>
    /\ IF repo = "" \/ sha = <<>>
       THEN /\ scorerSummary' = Append(scorerSummary,
                NeutralReport("_No source commit available for analysis_", ""))
            /\ scorerPc' = "exited"
            /\ scorerExitCode' = 0
       ELSE /\ scorerPc' = "commit"
            /\ UNCHANGED <<scorerSummary, scorerExitCode>>
    /\ UNCHANGED <<repo, sha, flagsEnv, diffStats, scorerThrown, scorerReplies>>
    /\ UNCHANGED notScorerVars

\* Lines 31-33 (and 26): the commit lookup of getDiffStats.
ScCommit ==
    /\ scorerPc = "commit"
    /\ \E answer \in Answers("commit", {Reply("commit", k, <<>>, 0) : k \in CommitReplies}) :
      LET reply == answer.kind IN
        /\ scorerReplies' = Append(scorerReplies, answer)
        /\ IF reply = "fail"
           THEN /\ scorerThrown' = "GitHub API 404: /repos/mnemom/repo/commits/sha"
                /\ scorerPc' = "unavailable"
                /\ UNCHANGED diffStats
           ELSE IF reply = "noparent"
           THEN /\ diffStats' = [totalChanges |-> 0, files |-> <<>>]
                /\ scorerPc' = "adjust"
                /\ UNCHANGED scorerThrown
           ELSE /\ scorerPc' = "compare"
                /\ UNCHANGED <<diffStats, scorerThrown>>
    /\ UNCHANGED <<repo, sha, flagsEnv, deployFlags, score, factors,
                   scorerSummary, scorerExitCode>>
    /\ UNCHANGED notScorerVars

\* Lines 35-44 (and 26): the compare lookup of getDiffStats.
ScCompare ==
    /\ scorerPc = "compare"
    /\ \E reply \in Answers("compare",
                  {Reply("compare", c.kind, c.files, 0) : c \in CompareReplies}) :
        /\ scorerReplies' = Append(scorerReplies, reply)
        /\ IF reply.kind = "fail"
           THEN /\ scorerThrown' = "GitHub API 404: /repos/mnemom/repo/compare/parent...sha"
                /\ scorerPc' = "unavailable"
                /\ UNCHANGED diffStats
           ELSE /\ diffStats' = DiffStats(reply)
                /\ scorerPc' = "adjust"
                /\ UNCHANGED scorerThrown
    /\ UNCHANGED <<repo, sha, flagsEnv, deployFlags, score, factors,
                   scorerSummary, scorerExitCode>>
    /\ UNCHANGED notScorerVars

\* Lines 107-162: the adjustments made from the diff and from the flags.
\* deployFlags[k] throws a TypeError when deployFlags is null, after the
\* three adjustments made from the diff.
ScAdjust ==
    /\ scorerPc = "adjust"
    /\ LET sized == DiffSizeStep([score |-> score, factors |-> factors],
                                 diffStats.totalChanges)
           configured == ConfigStep(sized, diffStats.files)
           depended == DepStep(configured, diffStats.files)
           serviced == ServiceStep(depended, countServicesAffected(deployFlags))
       IN IF deployFlags.null
          THEN /\ score' = depended.score
               /\ factors' = depended.factors
               /\ scorerThrown' = "Cannot read properties of null"
               /\ scorerPc' = "unavailable"
          ELSE /\ score' = serviced.score
               /\ factors' = serviced.factors
               /\ scorerPc' = "age"
               /\ UNCHANGED scorerThrown
    /\ UNCHANGED <<repo, sha, flagsEnv, deployFlags, diffStats, scorerSummary,
                   scorerReplies, scorerExitCode>>
    /\ UNCHANGED notScorerVars

\* Lines 165-179 (and 47-54): the age of the last production deployment.
ScAge ==
    /\ scorerPc = "age"
    /\ \E reply \in Answers("deployments",
                  {Reply("deployments", d.kind, <<>>, d.elapsed) : d \in DeploymentReplies}) :
        /\ scorerReplies' = Append(scorerReplies, reply)
        /\ LET aged == AgeStep([score |-> score, factors |-> factors], reply)
           IN /\ score' = aged.score
              /\ factors' = aged.factors
    /\ scorerPc' = "report"
    /\ UNCHANGED <<repo, sha, flagsEnv, deployFlags, diffStats, scorerThrown,
                   scorerSummary, scorerExitCode>>
    /\ UNCHANGED notScorerVars

\* Lines 191-210: clamp and write the report.
ScReport ==
    /\ scorerPc = "report"
    /\ score' = Clamp(score)
    /\ scorerSummary' =
          Append(scorerSummary, ScoreReport(Clamp(score), repo, sha, factors))
    /\ scorerPc' = "exited"
    /\ scorerExitCode' = 0
    /\ UNCHANGED <<repo, sha, flagsEnv, deployFlags, factors, diffStats,
                   scorerThrown, scorerReplies>>
    /\ UNCHANGED notScorerVars

\* Variant of ScUnavailable that reports what was computed so far.
ScUnavailableKeepsScore ==
    /\ scorerPc = "unavailable"
    /\ scorerSummary' =
          Append(scorerSummary, ScoreReport(Clamp(score), repo, sha, factors))
    /\ scorerPc' = "exited"
    /\ scorerExitCode' = 0
    /\ UNCHANGED <<repo, sha, flagsEnv, deployFlags, score, factors, diffStats,
                   scorerThrown, scorerReplies>>
    /\ UNCHANGED notScorerVars

\* Lines 180-188: an error thrown inside the analysis.
ScUnavailable ==
    /\ scorerPc = "unavailable"
    /\ scorerSummary' =
          Append(scorerSummary, NeutralReport("_Analysis unavailable_", scorerThrown))
    /\ scorerPc' = "exited"
    /\ scorerExitCode' = 0
    /\ UNCHANGED <<repo, sha, flagsEnv, deployFlags, score, factors, diffStats,
                   scorerThrown, scorerReplies>>
    /\ UNCHANGED notScorerVars

ScorerNext ==
    \/ ScStart
    \/ ScCommit
    \/ ScCompare
    \/ ScAdjust
    \/ ScAge
    \/ ScReport
    \/ ScUnavailable

ScorerSpec == ScorerInit /\ [][ScorerNext]_vars

\* ---------------------------------------------------- a second invocation

\* The steps of the workflow run a script as a new process each time; the
\* state of the finished process is left where it was, so that only what
\* main() itself sets is fresh in the second invocation.

\* part_002 line 157: main() is invoked again with the same environment.
GateRerun ==
    /\ gatePc = "exited"
    /\ run = 1
    /\ run' = 2
    /\ first' = [replies |-> [i \in 1..Len(gateQueries) |->
                                 [call |-> "query", answer |-> gateQueries[i]]],
                 summary |-> gateSummary, output |-> gateOutput,
                 exitCode |-> gateExitCode]
    /\ gatePc' = "start"
    /\ gateSummary' = <<>>
    /\ gateOutput' = <<>>
    /\ gateQueries' = <<>>
    /\ gateExitCode' = 0
    /\ UNCHANGED <<gateScriptName, gateThreshold, gateResult, gatePassed>>
    /\ UNCHANGED <<supVars, scorerVars, setupVars>>

\* confidence-score.js line 212: main() is invoked again with the same
\* environment.
ScorerRerun ==
    /\ scorerPc = "exited"
    /\ run = 1
    /\ run' = 2
    /\ first' = [replies |-> [i \in 1..Len(scorerReplies) |->
                                 [call |-> scorerReplies[i].call,
                                  answer |-> scorerReplies[i]]],
                 summary |-> scorerSummary, output |-> <<>>,
                 exitCode |-> scorerExitCode]
    /\ scorerPc' = "start"
    /\ scorerSummary' = <<>>
    /\ scorerReplies' = <<>>
    /\ scorerExitCode' = 0
    /\ UNCHANGED <<repo, sha, flagsEnv, deployFlags, score, factors, diffStats,
                   scorerThrown>>
    /\ UNCHANGED <<supVars, gateVars, setupVars>>

\* One of the two scripts is run, and run once more.
RerunInit == GateInit \/ ScorerInit

RerunNext ==
    \/ GateNext
    \/ GateRerun
    \/ ScorerNext
    \/ ScorerRerun

RerunSpec == RerunInit /\ [][RerunNext]_vars

\* ------------------------------------------------- setup-betterstack.js

\* Lines 13-44.
MONITORS ==
    <<[name |-> "Gateway", url |-> "https://gateway.mnemom.ai/health",
       check_frequency |-> 60],
      [name |-> "API", url |-> "https://api.mnemom.ai/health",
       check_frequency |-> 60],
      [name |-> "Reputation", url |-> "https://reputation.mnemom.ai/health",
       check_frequency |-> 60],
      [name |-> "Risk", url |-> "https://risk.mnemom.ai/health",
       check_frequency |-> 60],
      [name |-> "Website", url |-> "https://www.mnemom.ai",
       check_frequency |-> 60],
      [name |-> "Prover",
       url |-> "https://mnemom--mnemom-prover-prover-service.modal.run/health",
       check_frequency |-> 300]>>

\* What BetterStack may hold before the first invocation: monitors of other
\* sites (one of them without a url attribute), then any of the configured
\* urls.
OtherMonitors ==
    {<<>>, <<"https://status.example.com">>, <<"", "https://status.example.com">>}
ConfiguredSubset(S) ==
    LET urls == [i \in 1..Len(MONITORS) |-> MONITORS[i].url]
    IN SelectSeq(urls, LAMBDA u : u \in S)
Backends ==
    {o \o ConfiguredSubset(S) :
        o \in OtherMonitors,
        S \in SUBSET {MONITORS[i].url : i \in 1..Len(MONITORS)}}

\* What one request to BetterStack may meet.
ApiReplies == {"ok", "fail"}

\* GET /monitors?page=p as BetterStack answers it: data, and whether
\* pagination.next is set.
PageData(p) ==
    SubSeq(backend, (p - 1) * PageSize + 1,
           IF p * PageSize < Len(backend) THEN p * PageSize ELSE Len(backend))
PageHasNext(p) == p * PageSize < Len(backend)

\* Lines 102-104: existing.map((m) => m.attributes?.url).filter(Boolean).
ExistingUrls(existing) ==
    {existing[i] : i \in {j \in 1..Len(existing) : existing[j] # ""}}

SetupInit ==
    /\ SupIdle
    /\ GateIdle
    /\ ScorerIdle
    /\ FirstRun
    /\ bsToken \in Tokens
    /\ backend \in Backends
    /\ page = 1
    /\ monitors = <<>>
    /\ existingUrls = {}
    /\ cursor = 1
    /\ setupPc = "start"
    /\ listed = backend
    /\ creates = <<>>
    /\ setupCaught = ""
    /\ setupExitCode = 0

\* Lines 100-101 and 72-73: main() calls getExistingMonitors.
SetupStart ==
    /\ setupPc = "start"
    /\ monitors' = <<>>
    /\ page' = 1
    /\ setupPc' = "page"
    /\ UNCHANGED <<bsToken, backend, existingUrls, cursor, listed, creates,
                   setupCaught, setupExitCode>>
    /\ UNCHANGED <<notSetupVars, rerunVars>>

\* Variant of SetupPage that stops after the first page.
SetupPageFirstOnly ==
    /\ setupPc = "page"
    /\ \E reply \in ApiReplies :
        IF bsToken = "" \/ reply = "fail"
        THEN /\ setupCaught' = IF bsToken = "" THEN "BETTERSTACK_API_TOKEN is required"
                               ELSE "BetterStack API 500"
             /\ setupPc' = "catch"
             /\ UNCHANGED <<page, monitors, existingUrls, cursor>>
        ELSE /\ monitors' = monitors \o PageData(page)
             /\ existingUrls' = ExistingUrls(monitors \o PageData(page))
             /\ cursor' = 1
             /\ setupPc' = "loop"
             /\ UNCHANGED <<page, setupCaught>>
    /\ UNCHANGED <<bsToken, backend, listed, creates, setupExitCode>>
    /\ UNCHANGED <<notSetupVars, rerunVars>>

\* Lines 75-81 (and 48-69): one turn of the page loop; after the last page,
\* lines 83 and 101-106.
SetupPage ==
    /\ setupPc = "page"
    /\ \E reply \in ApiReplies :
        IF bsToken = "" \/ reply = "fail"
        THEN /\ setupCaught' = IF bsToken = "" THEN "BETTERSTACK_API_TOKEN is required"
                               ELSE "BetterStack API 500"
             /\ setupPc' = "catch"
             /\ UNCHANGED <<page, monitors, existingUrls, cursor>>
        ELSE IF Len(PageData(page)) = 0
        THEN /\ existingUrls' = ExistingUrls(monitors)
             /\ cursor' = 1
             /\ setupPc' = "loop"
             /\ UNCHANGED <<page, monitors, setupCaught>>
        ELSE IF ~PageHasNext(page)
        THEN /\ monitors' = monitors \o PageData(page)
             /\ existingUrls' = ExistingUrls(monitors \o PageData(page))
             /\ cursor' = 1
             /\ setupPc' = "loop"
             /\ UNCHANGED <<page, setupCaught>>
        ELSE /\ monitors' = monitors \o PageData(page)
             /\ page' = page + 1
             /\ UNCHANGED <<existingUrls, cursor, setupPc, setupCaught>>
    /\ UNCHANGED <<bsToken, backend, listed, creates, setupExitCode>>
    /\ UNCHANGED <<notSetupVars, rerunVars>>

\* Lines 108-124 (and 86-97): one turn of the loop over MONITORS.
SetupMonitor ==
    /\ setupPc = "loop"
    /\ cursor <= Len(MONITORS)
    /\ LET monitor == MONITORS[cursor]
       IN IF monitor.url \in existingUrls
          THEN UNCHANGED <<backend, creates>>
          ELSE \E reply \in ApiReplies :
                  /\ creates' = Append(creates,
                        [run |-> run, url |-> monitor.url, ok |-> reply = "ok"])
                  /\ backend' = IF reply = "ok" THEN Append(backend, monitor.url)
                                ELSE backend
    /\ cursor' = cursor + 1
    /\ UNCHANGED <<bsToken, page, monitors, existingUrls, setupPc, listed,
                   setupCaught, setupExitCode>>
    /\ UNCHANGED <<notSetupVars, rerunVars>>

\* Lines 126-127: the loop is over.
SetupDone ==
    /\ setupPc = "loop"
    /\ cursor > Len(MONITORS)
    /\ setupPc' = "exited"
    /\ setupExitCode' = 0
    /\ UNCHANGED <<bsToken, backend, page, monitors, existingUrls, cursor, listed,
                   creates, setupCaught>>
    /\ UNCHANGED <<notSetupVars, rerunVars>>

\* Lines 129-132: main() was rejected.
SetupCatch ==
    /\ setupPc = "catch"
    /\ setupPc' = "exited"
    /\ setupExitCode' = 1
    /\ UNCHANGED <<bsToken, backend, page, monitors, existingUrls, cursor, listed,
                   creates, setupCaught>>
    /\ UNCHANGED <<notSetupVars, rerunVars>>

\* Line 129: main() is invoked again; BetterStack holds what the first
\* invocation left.
SetupRerun ==
    /\ setupPc = "exited"
    /\ run = 1
    /\ run' = 2
    /\ listed' = backend
    /\ setupPc' = "start"
    /\ setupCaught' = ""
    /\ setupExitCode' = 0
    /\ first' = [first EXCEPT !.exitCode = setupExitCode]
    /\ UNCHANGED <<bsToken, backend, page, monitors, existingUrls, cursor, creates>>
    /\ UNCHANGED notSetupVars

SetupNext ==
    \/ SetupStart
    \/ SetupPage
    \/ SetupMonitor
    \/ SetupDone
    \/ SetupCatch
    \/ SetupRerun

SetupSpec == SetupInit /\ [][SetupNext]_vars

\* ------------------------------------------------------------------ claims
\* The claims speak of what the backend answered (outcomes, gateQueries), in
\* terms of the raw counts, not of the operators main() evaluates.

\* The answer is a failed query.
RespFailed(resp) == resp.kind \in FailureKinds

\* The answer is a sample with requests > 0 and errors / requests > threshold.
RespBreaches(resp, threshold) ==
    /\ resp.kind = "sum"
    /\ resp.requests > 0
    /\ resp.errors * threshold.d > threshold.n * resp.requests

\* Some answer of the run was a breach.
BreachSeen ==
    \E i \in 1..Len(outcomes) : RespBreaches(outcomes[i].resp, errorThreshold)

\* Both identities are configured.
Configured == scriptName # "" /\ serviceName # ""

\* C1: the rollback dispatcher is invoked at most once per run, and only right
\* after a poll whose query succeeded with requests > 0 and errorRate above the
\* threshold; a failed query, a sample without traffic or a rate equal to the
\* threshold never leads to a dispatch.
C1_DispatchOnlyOnBreach ==
    /\ dispatchCalls <= 1
    /\ dispatchPosts <= dispatchCalls
    /\ (dispatchCalls > 0 \/ pc \in {"rollback", "dispatch"}) =>
          /\ Len(outcomes) >= 1
          /\ RespBreaches(outcomes[Len(outcomes)].resp, errorThreshold)
    /\ \A i \in 1..Len(outcomes) :
          ~RespBreaches(outcomes[i].resp, errorThreshold) =>
             (i = Len(outcomes) => dispatchCalls = 0 /\ pc \notin {"rollback", "dispatch"})

\* C1 witness: a dispatch after two polls that did not breach, one of them at
\* the threshold exactly.
C1_Witness ==
    /\ dispatchCalls = 1
    /\ Len(outcomes) = 3
    /\ RespFailed(outcomes[1].resp)
    /\ outcomes[2].resp = [kind |-> "sum", requests |-> 100, errors |-> 5]
    /\ errorThreshold = [n |-> 5, d |-> 100]

\* C2: once a breach is detected the run ends with a non-zero exit code
\* whatever the dispatcher does (returns true, returns false, throws), and the
\* dispatcher is called once.
C2_BreachExitsNonZero ==
    (pc = "exited" /\ BreachSeen) => (exitCode # 0 /\ dispatchCalls = 1)

\* C3: when every query fails, the dispatcher is never invoked, the loop runs
\* until the monitor duration has elapsed, the run ends with the pass report
\* and exit code 0, and every record of checks is an error record carrying the
\* reason of its query's failure.
C3_AllQueriesFail ==
    (Configured /\ \A i \in 1..Len(outcomes) : RespFailed(outcomes[i].resp)) =>
        /\ dispatchCalls = 0
        /\ pc \notin {"rollback", "dispatch", "catch"}
        /\ Len(checks) = Len(outcomes)
        /\ \A i \in 1..Len(checks) :
              /\ checks[i].status = "error"
              /\ checks[i].message # ""
              /\ checks[i].message = QueryErrorRate(outcomes[i].resp).message
        /\ pc \in {"pass", "exited"} => now >= monitorDuration
        /\ pc = "exited" =>
              /\ exitCode = 0
              /\ Len(summary) = 1
              /\ summary[1].kind = "PASS"
              /\ summary[1].rows = checks

\* C3 witness: a finished run of three polls that all failed.
C3_Witness ==
    /\ pc = "exited"
    /\ Configured
    /\ Len(outcomes) = 3
    /\ \A i \in 1..3 : RespFailed(outcomes[i].resp)
    /\ monitorDuration = 3

\* C4: when every answer is a breaching sample, rollback is dispatched exactly
\* once, on the first poll, no further poll is made, and the check index the
\* report names is the sequence number of that poll's record.
C4_AlwaysBreaching ==
    (/\ Configured
     /\ monitorDuration > 0
     /\ \A i \in 1..Len(outcomes) : RespBreaches(outcomes[i].resp, errorThreshold)) =>
        /\ Len(outcomes) <= 1
        /\ dispatchCalls <= 1
        /\ pc \notin {"pass"}
        /\ pc \in {"catch", "exited"} =>
              /\ Len(outcomes) = 1
              /\ dispatchCalls = 1
              /\ Len(checks) = 1
              /\ checks[1].iteration = 1
              /\ summary[1].kind = "ROLLBACK TRIGGERED"
              /\ summary[1].atCheck = checks[Len(checks)].iteration

\* C4 witness: requests = 50, errors = 5 at threshold 0.05, run finished.
C4_Witness ==
    /\ pc = "exited"
    /\ errorThreshold = [n |-> 5, d |-> 100]
    /\ Len(outcomes) = 1
    /\ outcomes[1].resp = [kind |-> "sum", requests |-> 50, errors |-> 5]
    /\ dispatchCalls = 1

\* C5: a failed query on poll k neither stops the loop nor hides later
\* evidence: when poll k fails and poll k+1 is a breach, rollback is triggered
\* at poll k+1, and poll k is in the history as an error with its reason.
C5_FailureDoesNotMask ==
    /\ \A k \in 1..Len(outcomes) :
          RespFailed(outcomes[k].resp) =>
             /\ Len(checks) >= k
             /\ checks[k].iteration = k
             /\ checks[k].status = "error"
             /\ checks[k].message = QueryErrorRate(outcomes[k].resp).message
             /\ checks[k].message # ""
             /\ (k = Len(outcomes) /\ pc \in {"pass", "exited"}) => now >= monitorDuration
    /\ \A k \in 1..(Len(outcomes) - 1) :
          (RespFailed(outcomes[k].resp)
             /\ RespBreaches(outcomes[k + 1].resp, errorThreshold)) =>
             /\ Len(outcomes) = k + 1
             /\ pc \in {"rollback", "dispatch", "catch", "exited"}
             /\ checks[k + 1].status = "ok"
             /\ pc \in {"dispatch", "catch", "exited"} =>
                   /\ summary[1].kind = "ROLLBACK TRIGGERED"
                   /\ summary[1].atCheck = k + 1
                   /\ summary[1].rows[k].message = checks[k].message
             /\ pc \in {"catch", "exited"} => dispatchCalls = 1

\* C5 witness: poll 1 fails, poll 2 breaches, the dispatcher was called.
C5_Witness ==
    /\ Len(outcomes) = 2
    /\ RespFailed(outcomes[1].resp)
    /\ RespBreaches(outcomes[2].resp, errorThreshold)
    /\ dispatchCalls = 1
    /\ pc = "exited"

RespRequests(resp) == IF resp.kind = "sum" THEN resp.requests ELSE 0
RespErrors(resp) == IF resp.kind = "sum" THEN resp.errors ELSE 0

\* requests = 0, or errors / requests <= threshold.
RespPasses(resp, threshold) ==
    \/ RespRequests(resp) = 0
    \/ RespErrors(resp) * threshold.d <= threshold.n * RespRequests(resp)

\* C9: for every successfully queried sample the gate's verdict is
\* passed = (requests = 0) or (errorRate <= errorThreshold): no traffic passes
\* for any threshold, 5/100 at 0.05 passes, 6/100 at 0.05 fails; the report and
\* the canary-passed output carry that verdict.
C9_GateVerdict ==
    (Len(gateQueries) = 1 /\ ~RespFailed(gateQueries[1])) =>
        LET resp == gateQueries[1]
            verdict == RespPasses(resp, gateThreshold)
        IN /\ gatePc \in {"evaluate", "output", "exited"}
           /\ gatePc \in {"output", "exited"} =>
                 /\ gatePassed = verdict
                 /\ Len(gateSummary) = 1
                 /\ gateSummary[1].kind = (IF verdict THEN "PASS" ELSE "FAIL")
                 /\ RespRequests(resp) = 0 => gatePassed
                 /\ (resp.kind = "sum" /\ resp.requests = 100 /\ resp.errors = 5
                       /\ gateThreshold = [n |-> 5, d |-> 100]) => gatePassed
                 /\ (resp.kind = "sum" /\ resp.requests = 100 /\ resp.errors = 6
                       /\ gateThreshold = [n |-> 5, d |-> 100]) => ~gatePassed
           /\ gatePc = "exited" =>
                 gateOutput = << IF verdict THEN "true" ELSE "false" >>

\* C9 witness: 5 errors in 100 requests at threshold 0.05 has passed.
C9_Witness ==
    /\ gatePc = "exited"
    /\ gateQueries = << [kind |-> "sum", requests |-> 100, errors |-> 5] >>
    /\ gateThreshold = [n |-> 5, d |-> 100]
    /\ gateOutput = << "true" >>

\* C10: when the gate's query fails (HTTP error, GraphQL error, rejected
\* fetch) the gate emits canary-passed=true and its report records the reason;
\* the handler of a rejected main() does the same; a monitoring failure never
\* yields canary-passed=false.
C10_GateFailsOpen ==
    /\ (Len(gateQueries) = 1 /\ RespFailed(gateQueries[1])) =>
          /\ gatePc = "exited"
          /\ gateExitCode = 0
          /\ gateOutput = << "true" >>
          /\ Len(gateSummary) = 1
          /\ gateSummary[1].kind = "PASS (fail-open)"
          /\ gateSummary[1].error = GateQueryErrorRate(gateQueries[1]).message
          /\ gateSummary[1].error # ""
    /\ gatePc \in {"query", "evaluate", "output"} =>
          LET h == GateMainCatch("script error")
          IN /\ h.output[Len(h.output)] = "true"
             /\ \A i \in 1..Len(h.output) : h.output[i] # "false"
             /\ h.summary[Len(h.summary)].kind = "PASS (fail-open)"
             /\ h.summary[Len(h.summary)].error = "script error"

\* C10 witness: the backend answered with an HTTP error and the gate has
\* emitted true.
C10_Witness ==
    /\ gatePc = "exited"
    /\ Len(gateQueries) = 1
    /\ gateQueries[1].kind = "http"
    /\ gateOutput = << "true" >>
    /\ gateSummary[1].error = "Cloudflare GraphQL API returned 500"

\* C11: an invocation of the gate with a script name makes exactly one query,
\* writes exactly one report and writes canary-passed exactly once, whether the
\* sample passes, fails, or the query fails.
C11_GateOnceEach ==
    /\ Len(gateQueries) <= 1
    /\ Len(gateSummary) <= 1
    /\ Len(gateOutput) <= 1
    /\ Len(gateOutput) <= Len(gateSummary)
    /\ Len(gateSummary) <= Len(gateQueries)
    /\ (gatePc = "exited" /\ gateScriptName # "") =>
          /\ Len(gateQueries) = 1
          /\ Len(gateSummary) = 1
          /\ Len(gateOutput) = 1
          /\ gateOutput[1] \in {"true", "false"}

\* C11 witness: a finished invocation whose sample failed the gate.
C11_Witness ==
    /\ gatePc = "exited"
    /\ gateScriptName # ""
    /\ gateOutput = << "false" >>
    /\ Len(gateSummary) = 1
    /\ Len(gateQueries) = 1

\* An answer that is a failure of the query: backend unreachable, non-OK
\* status, GraphQL errors, or a malformed body (unparsable, or without the
\* rows the query asked for).
RespIsFailure(resp) == resp.kind \in {"network", "http", "graphql", "badjson", "nodata"}

\* C12: a window without traffic yields the sample (0, 0, 0), not a failure,
\* and every failure of the query is recorded as an error with its reason,
\* never as a sample.
C12_FailureDistinctFromZero ==
    \A i \in 1..Len(checks) :
        LET resp == outcomes[i].resp
        IN /\ resp.kind = "empty" =>
                 /\ checks[i].status = "ok"
                 /\ checks[i].requests = 0
                 /\ checks[i].errors = 0
                 /\ checks[i].errorRate = [n |-> 0, d |-> 1]
           /\ RespIsFailure(resp) =>
                 /\ checks[i].status = "error"
                 /\ checks[i].message # ""

\* --- claims about the scorer

\* The scorer has finished with the report of a scored change.
Scored ==
    /\ scorerPc = "exited"
    /\ Len(scorerSummary) = 1
    /\ scorerSummary[1].source # <<>>

\* C13: whatever the inputs and the answers of the upstream calls, the
\* score of every report the scorer writes is an integer from 0 to 100;
\* so is the score the handler of a rejected main() would write.
C13_ScoreInRange ==
    /\ \A i \in 1..Len(scorerSummary) : scorerSummary[i].score \in 0..100
    /\ scorerPc \notin {"idle", "exited"} =>
          \A i \in 1..Len(ScorerMainCatch("error")) :
              ScorerMainCatch("error")[i].score \in 0..100

\* A small change and nothing else: 110 before the clamp, 100 reported.
C13_Witness ==
    /\ Scored
    /\ score = 100
    /\ Len(factors) = 1
    /\ factors[1].impact = "+10"
    /\ scorerSummary[1].score = 100

\* The files of the diff as the upstream answered them.
AnsweredFiles ==
    IF Len(scorerReplies) >= 2 /\ scorerReplies[2].call = "compare"
    THEN scorerReplies[2].files ELSE <<>>

\* The answer of the deployment lookup.
AnsweredDeployments == scorerReplies[Len(scorerReplies)]

RECURSIVE LinesOf(_)
LinesOf(fs) ==
    IF fs = <<>> THEN 0
    ELSE Head(fs).additions + Head(fs).deletions + LinesOf(Tail(fs))

\* The file names of the inputs that lie outside src/ and are no tests, and
\* those that are dependency manifests or lockfiles.
OutsideSource == {PConfig, PWorkflow, PReadme, PPkg, PPkgLock, PPnpmLock}
Manifests == {PSrcPkg, PPkg, PPkgLock, PPnpmLock}

\* The services whose flag in DEPLOY_FLAGS is the boolean true.
MarkedServices ==
    IF flagsEnv.kind # "object" THEN {}
    ELSE {k \in {"smoltbot", "mnemom-api", "mnemom-reputation", "mnemom-risk",
                 "mnemom-website", "mnemom-prover", "hunter"} :
             flagsEnv.val[k] = "true"}

Adjustment(cond, impact, delta) ==
    IF cond THEN <<[impact |-> impact, delta |-> delta]>> ELSE <<>>

\* The adjustments whose condition holds, in evaluation order: those from
\* the diff, the one from the services, the one from the age of the last
\* production deployment.  A failed deployment lookup stands in the last
\* place with no effect.
DiffAdjustments ==
    Adjustment(LinesOf(AnsweredFiles) < 50, "+10", 10)
    \o Adjustment(LinesOf(AnsweredFiles) > 500, "-20", -20)
    \o Adjustment(\E i \in 1..Len(AnsweredFiles) :
                      AnsweredFiles[i].filename \in OutsideSource, "-10", -10)
    \o Adjustment(\E i \in 1..Len(AnsweredFiles) :
                      AnsweredFiles[i].filename \in Manifests, "-15", -15)
ServiceAdjustments ==
    Adjustment(Cardinality(MarkedServices) > 3, "-15", -15)
    \o Adjustment(Cardinality(MarkedServices) \in {2, 3}, "-5", -5)
AgeAdjustments ==
    Adjustment(AnsweredDeployments.kind = "last"
                   /\ AnsweredDeployments.elapsed > 7 * 4, "-5", -5)
    \o Adjustment(AnsweredDeployments.kind = "fail", "n/a", 0)
Adjustments == DiffAdjustments \o ServiceAdjustments \o AgeAdjustments

RECURSIVE SumDeltas(_)
SumDeltas(as) == IF as = <<>> THEN 0 ELSE Head(as).delta + SumDeltas(Tail(as))

\* C14: the score of a scored change is 100 plus the deltas of the
\* adjustments whose condition holds, brought into 0..100 once at the end,
\* and the factor table lists exactly those adjustments in evaluation order.
C14_ScoreIsClampedSum ==
    Scored =>
        LET report == scorerSummary[1]
            total == 100 + SumDeltas(Adjustments)
        IN /\ report.score = IF total > 100 THEN 100 ELSE IF total < 0 THEN 0 ELSE total
           /\ Len(report.table) = Len(Adjustments)
           /\ \A i \in 1..Len(Adjustments) :
                 report.table[i].impact = Adjustments[i].impact

\* C15: a failed deployment lookup adds the n/a factor and leaves the score
\* alone, the run still ends with the report of a scored change, and the
\* score is lowered for age only when a recorded deployment is more than
\* seven days old.
C15_MissingHistoryNeverLowers ==
    [][((scorerPc = "age" /\ scorerPc' = "report") =>
            LET d == scorerReplies'[Len(scorerReplies')]
            IN /\ d.kind = "fail" =>
                     /\ score' = score
                     /\ Len(factors') = Len(factors) + 1
                     /\ factors'[Len(factors')].impact = "n/a"
               /\ score' < score => (d.kind = "last" /\ d.elapsed > 7 * 4)
               /\ (d.kind = "last" /\ d.elapsed > 7 * 4) => score' = score - 5)
       /\ ((scorerPc = "report" /\ scorerPc' = "exited") =>
            scorerSummary'[Len(scorerSummary')].source # <<>>)]_vars

\* A commit or compare lookup of this run was answered with a failure.
LookupFailed ==
    \E i \in 1..Len(scorerReplies) :
        scorerReplies[i].call \in {"commit", "compare"} /\ scorerReplies[i].kind = "fail"

\* The report of the neutral score: 50, no source, no factor table.
IsNeutral(report) ==
    /\ report.header = "## Deployment Confidence Score"
    /\ report.score = 50
    /\ report.source = <<>>
    /\ report.table = <<>>

\* C16: without a repository or a commit reference, or when the commit or
\* compare lookup fails (or the analysis throws for another reason), the
\* scorer ends with exit code 0 and the neutral report of score 50 without
\* a factor table, whatever adjustments it had made before; the handler of
\* a rejected main() would do the same.
C16_DegradedIsNeutral ==
    /\ (scorerPc = "exited"
           /\ (repo = "" \/ sha = <<>> \/ LookupFailed \/ flagsEnv.kind = "null")) =>
          /\ scorerExitCode = 0
          /\ Len(scorerSummary) = 1
          /\ IsNeutral(scorerSummary[1])
    /\ scorerPc \notin {"idle", "exited"} =>
          IsNeutral(ScorerMainCatch("error")[Len(ScorerMainCatch("error"))])

\* The compare lookup failed after the baseline was set.
C16_Witness ==
    /\ scorerPc = "exited"
    /\ Len(scorerReplies) = 2
    /\ scorerReplies[2].call = "compare"
    /\ scorerReplies[2].kind = "fail"
    /\ score = 100
    /\ scorerSummary[1].score = 50

\* The entries of factors made by the services-affected adjustment.
ServiceFactors ==
    SelectSeq(factors, LAMBDA f : f.signal \in {"services affected (>3)",
                                                "services affected (2-3)"})

\* C17: once the adjustments from the diff and the flags are made, the
\* score is 100 plus their deltas, where the services adjustment counts the
\* seven services whose flag is the boolean true and nothing else: more
\* than 3 gives one -15 factor, 2 or 3 one -5 factor, 0 or 1 no factor; an
\* unset, unparsable or non-object DEPLOY_FLAGS counts as no services.
C17_ServicesCounted ==
    scorerPc = "age" =>
        LET n == Cardinality(MarkedServices)
        IN /\ score = 100 + SumDeltas(DiffAdjustments) + SumDeltas(ServiceAdjustments)
           /\ n > 3 => /\ Len(ServiceFactors) = 1
                       /\ ServiceFactors[1].impact = "-15"
                       /\ ServiceFactors[1].label = ToString(n)
           /\ n \in {2, 3} => /\ Len(ServiceFactors) = 1
                              /\ ServiceFactors[1].impact = "-5"
                              /\ ServiceFactors[1].label = ToString(n)
           /\ n \in {0, 1} => ServiceFactors = <<>>
           /\ flagsEnv.kind \in {"unset", "malformed", "array"} => ServiceFactors = <<>>

\* Three services true, a fourth holding the string "true", a package
\* deployable true: counted as 3.
C17_Witness ==
    /\ scorerPc = "age"
    /\ flagsEnv.kind = "object"
    /\ flagsEnv.val["aap"] = "true"
    /\ flagsEnv.val["mnemom-risk"] = "'true'"
    /\ Cardinality(MarkedServices) = 3
    /\ Len(ServiceFactors) = 1
    /\ ServiceFactors[1].impact = "-5"

\* C18: an invocation writes its report, one header with one score, exactly
\* once: none before the end and one at the end on the paths of main(), and
\* one from the handler if main() is rejected before it has reported.
C18_OneReport ==
    /\ Len(scorerSummary) <= 1
    /\ \A i \in 1..Len(scorerSummary) :
          /\ scorerSummary[i].header = "## Deployment Confidence Score"
          /\ scorerSummary[i].score \in Int
    /\ scorerPc = "exited" => Len(scorerSummary) = 1
    /\ scorerPc \notin {"idle", "exited"} =>
          /\ scorerSummary = <<>>
          /\ Len(ScorerMainCatch("error")) = 1
          /\ ScorerMainCatch("error")[1].header = "## Deployment Confidence Score"

\* A run without a commit reference has ended with its one report.
C18_Witness ==
    /\ scorerPc = "exited"
    /\ repo # ""
    /\ sha = <<>>
    /\ Len(scorerSummary) = 1
    /\ scorerSummary[1].note = "_No source commit available for analysis_"

\* --- claims about a second invocation

ConfiguredUrls ==
    {"https://gateway.mnemom.ai/health", "https://api.mnemom.ai/health",
     "https://reputation.mnemom.ai/health", "https://risk.mnemom.ai/health",
     "https://www.mnemom.ai",
     "https://mnemom--mnemom-prover-prover-service.modal.run/health"}

\* How many monitors BetterStack holds for a url.
Held(u) == Cardinality({i \in 1..Len(backend) : backend[i] = u})

\* The create requests of one invocation.
CreatesOf(r) == SelectSeq(creates, LAMBDA c : c.run = r)

\* The first invocation ran to its end and every create request it made
\* succeeded.
FirstRunCreatedAll ==
    /\ run = 2
    /\ first.exitCode = 0
    /\ \A i \in 1..Len(CreatesOf(1)) : CreatesOf(1)[i].ok

\* C20: an invocation asks for the creation only of configured urls that no
\* monitor on any page held when it began, each at most once, so no
\* configured url is ever held twice; and after a first invocation whose
\* creations all succeeded the second makes no create request.
C20_SetupIdempotent ==
    /\ \A i \in 1..Len(creates) :
          creates[i].run = run =>
              /\ creates[i].url \in ConfiguredUrls
              /\ \A j \in 1..Len(listed) : listed[j] # creates[i].url
              /\ \A k \in 1..Len(creates) :
                    (k # i /\ creates[k].run = run) => creates[k].url # creates[i].url
    /\ \A u \in ConfiguredUrls : Held(u) <= 1
    /\ FirstRunCreatedAll => CreatesOf(2) = <<>>

\* The second invocation has ended without a create request, after a first
\* that found monitors on several pages and created some.
C20_Witness ==
    /\ FirstRunCreatedAll
    /\ setupPc = "exited"
    /\ setupExitCode = 0
    /\ Len(CreatesOf(1)) >= 2
    /\ Len(backend) - Len(CreatesOf(1)) > PageSize
    /\ page > 2
    /\ CreatesOf(2) = <<>>

\* --- further claims about the supervisor

\* C21: in a rollback the report, with the whole history and the number of
\* the triggering check, is written before the dispatcher is invoked, and
\* once the dispatcher is invoked nothing more happens before the end: no
\* query and no further report.
C21_DispatchIsLast ==
    (pc = "dispatch" \/ dispatchCalls > 0) =>
        /\ Len(summary) = 1
        /\ summary[1].kind = "ROLLBACK TRIGGERED"
        /\ summary[1].rows = checks
        /\ summary[1].atCheck = Len(checks)
        /\ Len(outcomes) = Len(summary[1].rows)
        /\ pc \in {"dispatch", "catch", "exited"}

\* C22: every step leaves the records already in checks as they are and adds
\* at most one; the records are numbered 1, 2, 3, ... in the order of the
\* queries, failed queries included, one per iteration; and a rollback
\* report names the last record, which is the breach just sampled.
C22_HistoryAppendOnly ==
    [][/\ Len(checks') \in {Len(checks), Len(checks) + 1}
       /\ SubSeq(checks', 1, Len(checks)) = checks
       /\ Len(checks') = Len(outcomes')
       /\ \A i \in 1..Len(checks') : checks'[i].iteration = i
       /\ iteration' \in {Len(checks'), Len(checks') + 1}
       /\ \A r \in 1..Len(summary') :
             summary'[r].kind = "ROLLBACK TRIGGERED" =>
                /\ summary'[r].atCheck = Len(summary'[r].rows)
                /\ summary'[r].rows = checks'
                /\ RespBreaches(outcomes'[summary'[r].atCheck].resp, errorThreshold)]_vars

\* A rollback at the third check, after a failed query and a clean sample.
C22_Witness ==
    /\ Len(summary) = 1
    /\ summary[1].kind = "ROLLBACK TRIGGERED"
    /\ summary[1].atCheck = 3
    /\ checks[1].status = "error"
    /\ checks[2].status = "ok"
    /\ checks[3].iteration = 3

\* C23: the monitor duration bounds the run: no query is made after the
\* duration has elapsed, and a run of duration D makes at most D queries
\* when the poll interval is a second or more.
C23_BudgetIsHard ==
    /\ \A i \in 1..Len(outcomes) : outcomes[i].at <= monitorDuration
    /\ Len(outcomes) <= monitorDuration

\* C23 as amended: the budget is tested before each iteration, not before
\* each query.  An iteration begins only while the elapsed time is below
\* the duration, sleeps at least one poll interval and then queries, so the
\* first query needs a duration above 0, every later query follows a query
\* made before the duration had elapsed, a run makes at most ceil(D / I)
\* queries, and the pass report is written only once the duration has
\* elapsed.
C23_BudgetBoundsIterations ==
    /\ \A i \in 1..Len(outcomes) :
          /\ outcomes[i].at >= i * pollInterval
          /\ i = 1 => monitorDuration > 0
          /\ i > 1 => /\ outcomes[i - 1].at < monitorDuration
                      /\ outcomes[i].at >= outcomes[i - 1].at + pollInterval
    /\ Len(outcomes) >= 1 => (Len(outcomes) - 1) * pollInterval < monitorDuration
    /\ pc = "sleep" => now < monitorDuration
    /\ pc = "pass" => now >= monitorDuration

\* A run of 3 seconds polling every 2 seconds has passed with its second
\* query made at 4 seconds.
C23_Witness ==
    /\ pc = "exited"
    /\ exitCode = 0
    /\ monitorDuration = 3
    /\ pollInterval = 2
    /\ Len(outcomes) = 2
    /\ outcomes[2].at = 4
    /\ summary[1].kind = "PASS"

\* C24: a run that passes the configuration check ends with exactly one
\* report, never with both a rollback and a pass report, and the report
\* agrees with the exit code: rollback with a non-zero code, pass with 0.
C24_OneTerminalReport ==
    /\ Len(summary) <= 1
    /\ (pc = "exited" /\ Configured) =>
          /\ Len(summary) = 1
          /\ summary[1].kind = "ROLLBACK TRIGGERED" => exitCode # 0
          /\ summary[1].kind \in {"PASS", "PASS (fail-open)"} => exitCode = 0

\* --- further claims about the gate and the scorer

\* C25: the gate and the supervisor draw the same line.  For every answer
\* that is a sample and every threshold from 0 to 1, the gate's verdict is
\* "not passed" exactly when the supervisor's rollback condition holds for
\* the sample its own query function returns; and the canary-passed output
\* of a finished gate is "false" exactly in that case.
C25_SameBreachPredicate ==
    /\ \A resp \in Responses : \A threshold \in Thresholds :
          (GateQueryErrorRate(resp).ok /\ QueryErrorRate(resp).ok) =>
              (~Passed(GateQueryErrorRate(resp), threshold)
                  <=> Breach(QueryErrorRate(resp), threshold))
    /\ (gatePc = "exited" /\ Len(gateQueries) = 1 /\ ~RespFailed(gateQueries[1])) =>
          (gateOutput = <<"false">>
              <=> Breach(QueryErrorRate(gateQueries[1]), gateThreshold))

\* The gate has refused a sample of 6 errors in 100 requests at 0.05.
C25_Witness ==
    /\ gatePc = "exited"
    /\ gateQueries = <<[kind |-> "sum", requests |-> 100, errors |-> 6]>>
    /\ gateThreshold = [n |-> 5, d |-> 100]
    /\ gateOutput = <<"false">>
    /\ Breach(QueryErrorRate(gateQueries[1]), gateThreshold)

\* C26: without SCRIPT_NAME the gate ends with a non-zero exit code and has
\* made no query, written no report and emitted no canary-passed value.
C26_GateWithoutNameAborts ==
    gateScriptName = "" =>
        /\ gatePc \in {"idle", "start", "exited"}
        /\ gatePc = "exited" => gateExitCode # 0
        /\ gateQueries = <<>>
        /\ gateSummary = <<>>
        /\ gateOutput = <<>>

\* The gate has ended without a script name.
C26_Witness ==
    /\ gatePc = "exited"
    /\ gateScriptName = ""
    /\ gateExitCode = 1
    /\ gateOutput = <<>>

\* C27: while a change is being scored the score before the clamp stays
\* between 35 and 110, so only the upper bound of the clamp can act, and no
\* factor list holds both the small-change and the large-change factor.
C27_UnclampedRange ==
    /\ scorerPc \in {"commit", "compare", "adjust", "age", "report"} =>
          score \in 35..110
    /\ ~(\E i \in 1..Len(factors) : \E j \in 1..Len(factors) :
            factors[i].impact = "+10" /\ factors[j].impact = "-20")
    /\ \A r \in 1..Len(scorerSummary) :
          ~(\E i \in 1..Len(scorerSummary[r].table) :
              \E j \in 1..Len(scorerSummary[r].table) :
                 scorerSummary[r].table[i].impact = "+10"
                    /\ scorerSummary[r].table[j].impact = "-20")

\* Every lowering adjustment applies: 35 before the clamp.
C27_Witness ==
    /\ scorerPc = "report"
    /\ score = 35
    /\ Len(factors) = 5

====
